---------------------------- MODULE Spec2Model ----------------------------
(* A model of cryptofeed's MEXC adapter (cryptofeed/exchanges/mexc.py).    *)
(*                                                                          *)
(* Python values are represented as follows.                                *)
(*   str      a sequence of tokens; a token is a run of characters that no  *)
(*            operation of the adapter cuts ("." and "{}" are tokens of     *)
(*            their own, the characters of a numeric text are one token     *)
(*            each)                                                         *)
(*   dict     a set of <<key, value>> pairs with unique keys                *)
(*   Decimal  <<coefficient, exponent>> with the trailing zeros of the      *)
(*            coefficient stripped: equal numbers are equal pairs, as       *)
(*            Decimal keys of a dict are                                    *)
(*   int      (event times) the canonical decimal digits of the number,     *)
(*            since epoch milliseconds do not fit a 32 bit integer          *)
(*   float    (event times in seconds) whole seconds and milliseconds       *)
(*   float    (time.time()) an integer number of milliseconds               *)
EXTENDS Integers, Sequences, FiniteSets, TLC

VARIABLES
    std_symbol_mapping,     \* Feed's symbol table: normalized -> native
    l2_book,                \* self._l2_book: normalized symbol -> OrderBook
    instrument_info_cache,  \* self._instrument_info_cache
    subscription,           \* conn.subscription of every connection
    connState,              \* where every connection is in its lifecycle
    epoch,                  \* how many times every connection was established
    builtIn,                \* history: the epoch each cached book was built in
    last,                   \* the last operation run and what it did
    authCalls,              \* the calls of _auth made so far, with their results
    authSent                \* history: authenticate wrote a payload on the
                            \* connection when it was last established

vars == <<std_symbol_mapping, l2_book, instrument_info_cache, subscription,
          connState, epoch, builtIn, last, authCalls, authSent>>

-----------------------------------------------------------------------------
(* Bounds of the model.                                                     *)

\* connections are (re)established at most this many times each
MaxEpoch == 2
\* instrument lists hold at most this many records
MaxRecords == 3
\* time.time() reads at most this many whole seconds
MaxSec == 2
\* _auth is called at most this many times in a row
MaxAuthCalls == 2

-----------------------------------------------------------------------------
(* dict                                                                     *)

DictKeys(d) == {e[1] : e \in d}

DictGet(d, k) == (CHOOSE e \in d : e[1] = k)[2]

DictPut(d, k, v) == {e \in d : e[1] # k} \cup {<<k, v>>}

DictDel(d, k) == {e \in d : e[1] # k}

-----------------------------------------------------------------------------
(* str                                                                      *)

\* the value of msg.get(key) / the marker of a key a frame does not hold
Missing == <<"<missing>">>

\* str.startswith
StartsWith(s, prefix) ==
    /\ Len(prefix) <= Len(s)
    /\ SubSeq(s, 1, Len(prefix)) = prefix

\* the index of the last "." of s, 0 when there is none
LastDot(s) ==
    LET dots == {i \in 1..Len(s) : s[i] = "."}
    IN  IF dots = {} THEN 0 ELSE CHOOSE i \in dots : \A j \in dots : j <= i

\* s.split('.')[-1]
LastSegment(s) == SubSeq(s, LastDot(s) + 1, Len(s))

\* template.format(arg): every "{}" of the template is replaced by arg
RECURSIVE Format(_, _)
Format(template, arg) ==
    IF template = <<>> THEN <<>>
    ELSE (IF Head(template) = "{}" THEN arg ELSE <<Head(template)>>)
         \o Format(Tail(template), arg)

-----------------------------------------------------------------------------
(* Numbers                                                                  *)

Digits == {"0", "1", "2", "3", "4", "5", "6", "7", "8", "9"}

DigitVal(c) ==
    CASE c = "0" -> 0 [] c = "1" -> 1 [] c = "2" -> 2 [] c = "3" -> 3
      [] c = "4" -> 4 [] c = "5" -> 5 [] c = "6" -> 6 [] c = "7" -> 7
      [] c = "8" -> 8 [] c = "9" -> 9

DigitChar(n) ==
    CASE n = 0 -> "0" [] n = 1 -> "1" [] n = 2 -> "2" [] n = 3 -> "3"
      [] n = 4 -> "4" [] n = 5 -> "5" [] n = 6 -> "6" [] n = 7 -> "7"
      [] n = 8 -> "8" [] n = 9 -> "9"

\* the number a sequence of digits writes
RECURSIVE NumVal(_)
NumVal(ds) ==
    IF ds = <<>> THEN 0
    ELSE NumVal(SubSeq(ds, 1, Len(ds) - 1)) * 10 + DigitVal(ds[Len(ds)])

\* str(n) of an int n >= 0
RECURSIVE IntText(_)
IntText(n) ==
    IF n < 10 THEN <<DigitChar(n)>>
    ELSE IntText(n \div 10) \o <<DigitChar(n % 10)>>

RECURSIVE StripZeros(_, _)
StripZeros(coef, exp) ==
    IF coef = 0 THEN <<0, 0>>
    ELSE IF coef % 10 = 0 THEN StripZeros(coef \div 10, exp + 1)
    ELSE <<coef, exp>>

\* the texts decimal.Decimal reads, of those the model feeds it: digits with
\* at most one "." and at least one digit
IsDecimalText(text) ==
    /\ \A i \in 1..Len(text) : text[i] \in Digits \cup {"."}
    /\ Cardinality({i \in 1..Len(text) : text[i] = "."}) <= 1
    /\ \E i \in 1..Len(text) : text[i] \in Digits

\* decimal.Decimal(text), for a text it reads
Decimal(text) ==
    LET digitsOnly == SelectSeq(text, LAMBDA c : c \in Digits)
        frac == IF LastDot(text) = 0 THEN 0 ELSE Len(text) - LastDot(text)
    IN  StripZeros(NumVal(digitsOnly), 0 - frac)

\* the texts int() reads, of those the model feeds it: one digit or more
IsIntText(text) ==
    /\ text # <<>>
    /\ \A i \in 1..Len(text) : text[i] \in Digits

RECURSIVE StripLeadingZeros(_)
StripLeadingZeros(ds) ==
    IF Len(ds) > 1 /\ Head(ds) = "0" THEN StripLeadingZeros(Tail(ds)) ELSE ds

\* int(text): the int, as its canonical digits
IntOfText(text) == StripLeadingZeros(text)


-----------------------------------------------------------------------------
(* cryptofeed.defines, and the class attributes of Mexc                     *)

L2_BOOK == "l2_book"
ORDER_INFO == "order_info"
BID == "bid"
ASK == "ask"
SPOT == <<"SPOT">>

\* Mexc.websocket_channels: standard channel -> the exchange's channel
websocket_channels ==
    { <<L2_BOOK, <<"spot@public", ".", "limit", ".", "depth", ".", "v3", ".",
                   "api@", "{}", "@10">> >>,
      <<ORDER_INFO, <<"order">> >> }

\* the literal message_handler compares the channel tag with
DepthPrefix == <<"spot@public", ".", "limit", ".", "depth">>

\* Feed.std_channel_to_exchange
std_channel_to_exchange(std) == DictGet(websocket_channels, std)

\* Feed.exchange_channel_to_std
exchange_channel_to_std(chan) ==
    (CHOOSE e \in websocket_channels : e[2] = chan)[1]

\* Feed.is_authenticated_channel: the order channel needs a signed credential
is_authenticated_channel(std) == std = ORDER_INFO

\* Symbol(base, quote, type).normalized
Normalized(base, quote, type) == base \o <<"-">> \o quote \o <<"-">> \o type

-----------------------------------------------------------------------------
(* Symbol Mapper                                                            *)

\* bool(status) of the status values of an instrument record: a str is truthy
\* unless empty, a bool is its value
Truthy(status) ==
    CASE status[1] = "str" -> status[2] # ""
      [] status[1] = "bool" -> status[2] = "true"

\* a faulty variant: an entry of the table is not overwritten
RECURSIVE ParseLoopFirstWins(_, _)
ParseLoopFirstWins(entries, n) ==
    IF n = 0 THEN {}
    ELSE LET ret == ParseLoopFirstWins(entries, n - 1)
             entry == entries[n]
             s == Normalized(entry.baseAsset, entry.quoteAsset, SPOT)
         IN  IF ~Truthy(entry.status) \/ s \in DictKeys(ret) THEN ret
             ELSE DictPut(ret, s, entry.symbol)

\* the loop of _parse_symbol_data over the first n records of entries
RECURSIVE ParseLoop(_, _)
ParseLoop(entries, n) ==
    IF n = 0 THEN {}
    ELSE LET ret == ParseLoop(entries, n - 1)
             entry == entries[n]
             s == Normalized(entry.baseAsset, entry.quoteAsset, SPOT)
         IN  IF ~Truthy(entry.status) THEN ret
             ELSE DictPut(ret, s, entry.symbol)

\* Mexc._parse_symbol_data(data): the pair (ret, info)
_parse_symbol_data(data) ==
    [ret |-> ParseLoop(data.symbols, Len(data.symbols)), info |-> {}]

\* Feed.exchange_symbol_to_std_symbol is defined for the native symbols of
\* the table
IsExchangeSymbol(mapping, native) == \E e \in mapping : e[2] = native

exchange_symbol_to_std_symbol(mapping, native) ==
    (CHOOSE e \in mapping : e[2] = native)[1]

\* the instrument list the adapter of the feed model was started with
ExchangeInfo ==
    [symbols |-> <<
        [status |-> <<"str", "ENABLED">>, symbol |-> <<"BTCUSDT">>,
         baseAsset |-> <<"BTC">>, quoteAsset |-> <<"USDT">>],
        [status |-> <<"str", "ENABLED">>, symbol |-> <<"ETHUSDT">>,
         baseAsset |-> <<"ETH">>, quoteAsset |-> <<"USDT">>],
        [status |-> <<"str", "">>, symbol |-> <<"LTCUSDT">>,
         baseAsset |-> <<"LTC">>, quoteAsset |-> <<"USDT">>],
        [status |-> <<"str", "ENABLED">>, symbol |-> <<"ETHBTC">>,
         baseAsset |-> <<"ETH">>, quoteAsset |-> <<"BTC">>] >>]

-----------------------------------------------------------------------------
(* Order Book Builder                                                       *)

NoError == "none"

\* the constant event times in milliseconds are divided by
MsPerSec == 1000

\* an int, given by its digits, divided by k: the digits of the quotient and
\* the remainder (long division, digit by digit)
RECURSIVE LongDiv(_, _)
LongDiv(ds, k) ==
    IF ds = <<>> THEN [q |-> <<>>, r |-> 0]
    ELSE LET prev == LongDiv(SubSeq(ds, 1, Len(ds) - 1), k)
             cur == prev.r * 10 + DigitVal(ds[Len(ds)])
         IN  [q |-> Append(prev.q, DigitChar(cur \div k)), r |-> cur % k]

\* ts / 1000 of an int of milliseconds: the float, as whole seconds and the
\* milliseconds beyond them
TrueDiv1000(ts) ==
    LET qr == LongDiv(ts, MsPerSec)
    IN  [whole |-> NumVal(qr.q), millis |-> qr.r]

\* timestamp=ts / 1000 of Mexc._book
EventTimestamp(ts) == TrueDiv1000(ts)

\* datetime.timestamp(): the epoch seconds of the instant of a datetime,
\* which is held as its epoch milliseconds
DatetimeTimestamp(ts) == TrueDiv1000(ts.text)

\* Mexc.timestamp_normalize(ts): the float returned, or the exception raised
\* (ts is an int, a str or a datetime: a str is no int and has no method
\* timestamp)
timestamp_normalize(ts) ==
    IF ts.kind = "int"
    THEN [raised |-> NoError, value |-> TrueDiv1000(ts.text)]
    ELSE IF ts.kind = "datetime"
    THEN [raised |-> NoError, value |-> DatetimeTimestamp(ts)]
    ELSE [raised |-> "AttributeError", value |-> [whole |-> 0, millis |-> 0]]

\* OrderBook(self.id, pair, max_depth=self.max_depth): a book of two empty
\* sides (the depth bound of the book type limits what a consumer reads of
\* a side, not what the side stores, and is left out)
OrderBook == [bid |-> {}, ask |-> {}]

\* a faulty variant: the book the cache holds is reused
ReuseBook(cache, pair) ==
    IF pair \in DictKeys(cache) THEN DictGet(cache, pair) ELSE OrderBook

\* the book Mexc._book stores under pair before it reads the levels
NewBook(cache, pair) == OrderBook

\* d['bids'] then d['asks'], in the order the two loops visit the levels
SideLevels(d) ==
    [i \in 1..(Len(d.bids) + Len(d.asks)) |->
        IF i <= Len(d.bids) THEN [side |-> BID, pv |-> d.bids[i]]
        ELSE [side |-> ASK, pv |-> d.asks[i - Len(d.bids)]]]

\* the book after the first n levels were stored
RECURSIVE Populate(_, _, _)
Populate(book, levels, n) ==
    IF n = 0 THEN book
    ELSE LET b == Populate(book, levels, n - 1)
             lv == levels[n]
         IN  [b EXCEPT ![lv.side] =
                 DictPut(@, Decimal(lv.pv.p), Decimal(lv.pv.v))]

\* what a call leaves behind: the cache, the exception raised (NoError when
\* none), the events handed to book_callback, the log entries, and the
\* normalized symbol whose cache entry the call assigned (Missing when none)
Outcome(cache, raised, emitted, logged, pair) ==
    [l2_book |-> cache, raised |-> raised, emitted |-> emitted,
     logged |-> logged, pair |-> pair]

\* a faulty variant: book_callback is called after every level stored
EmitPointsPerLevel(levels) == [i \in 1..Len(levels) |-> i]

\* the numbers of levels stored at which Mexc._book calls book_callback:
\* once, after both loops
EmitPoints(levels) == <<Len(levels)>>

\* a faulty variant: the symbol is not resolved through the symbol table
BookSymbolUnresolved(mapping, msg) == LastSegment(msg.s)

\* pair = self.exchange_symbol_to_std_symbol(msg['s'].split('.')[-1])
BookSymbol(mapping, msg) ==
    exchange_symbol_to_std_symbol(mapping, LastSegment(msg.s))

\* Mexc._book(msg, timestamp)
_book(mapping, cache, msg) ==
    IF msg.s = Missing THEN Outcome(cache, "KeyError", <<>>, <<>>, Missing)
    ELSE IF ~IsExchangeSymbol(mapping, LastSegment(msg.s))
    THEN Outcome(cache, "UnsupportedSymbol", <<>>, <<>>, Missing)
    ELSE
    LET pair == BookSymbol(mapping, msg)
        cache1 == DictPut(cache, pair, NewBook(cache, pair))
    IN
    IF ~msg.d.present THEN Outcome(cache1, "KeyError", <<>>, <<>>, pair)
    ELSE
    LET levels == SideLevels(msg.d)
        bad == {i \in 1..Len(levels) :
                    ~(IsDecimalText(levels[i].pv.p)
                      /\ IsDecimalText(levels[i].pv.v))}
        n == IF bad = {} THEN Len(levels)
             ELSE (CHOOSE i \in bad : \A j \in bad : i <= j) - 1
        cache2 == DictPut(cache1, pair,
                          Populate(DictGet(cache1, pair), levels, n))
    IN
    IF bad # {} THEN Outcome(cache2, "InvalidOperation", <<>>, <<>>, pair)
    ELSE IF msg.t.kind = "missing"
    THEN Outcome(cache2, "KeyError", <<>>, <<>>, pair)
    ELSE IF msg.t.kind = "str" /\ ~IsIntText(msg.t.text)
    THEN Outcome(cache2, "ValueError", <<>>, <<>>, pair)
    ELSE
    LET ts == IF msg.t.kind = "str" THEN IntOfText(msg.t.text) ELSE msg.t.text
        at == EmitPoints(levels)
    IN  Outcome(cache2, NoError,
                [j \in 1..Len(at) |->
                    [channel |-> L2_BOOK, symbol |-> pair,
                     book |-> Populate(DictGet(cache1, pair), levels, at[j]),
                     timestamp |-> EventTimestamp(ts), raw |-> msg]],
                <<>>, pair)

\* Mexc._order(msg, timestamp)
_order(mapping, cache, msg) ==
    Outcome(cache, "NotImplementedError", <<>>, <<>>, Missing)

-----------------------------------------------------------------------------
(* Message Router                                                           *)

\* msg.get('c', '')
ChannelTag(msg) == IF msg.c = Missing THEN <<>> ELSE msg.c

\* a faulty variant: a frame no handler takes is an error
message_handler_strict(mapping, cache, msg, uuid) ==
    IF StartsWith(ChannelTag(msg), DepthPrefix) THEN _book(mapping, cache, msg)
    ELSE Outcome(cache, "ValueError", <<>>, <<>>, Missing)

\* a faulty variant: a depth frame starts the cache anew
message_handler_clearing(mapping, cache, msg, uuid) ==
    IF StartsWith(ChannelTag(msg), DepthPrefix) THEN _book(mapping, {}, msg)
    ELSE Outcome(cache, NoError, <<>>,
                 << [level |-> "warning", uuid |-> uuid, msg |-> msg] >>,
                 Missing)

\* a faulty variant: the decoding error of a level is caught and logged
message_handler_swallowing(mapping, cache, msg, uuid) ==
    IF ~StartsWith(ChannelTag(msg), DepthPrefix)
    THEN Outcome(cache, NoError, <<>>,
                 << [level |-> "warning", uuid |-> uuid, msg |-> msg] >>,
                 Missing)
    ELSE LET r == _book(mapping, cache, msg)
         IN  IF r.raised = "InvalidOperation"
             THEN [r EXCEPT !.raised = NoError,
                            !.logged = << [level |-> "warning", uuid |-> uuid,
                                           msg |-> msg] >>]
             ELSE r

\* Mexc.message_handler(msg, conn, timestamp), for a msg that decodes to an
\* object
message_handler(mapping, cache, msg, uuid) ==
    IF StartsWith(ChannelTag(msg), DepthPrefix) THEN _book(mapping, cache, msg)
    ELSE Outcome(cache, NoError, <<>>,
                 << [level |-> "warning", uuid |-> uuid, msg |-> msg] >>,
                 Missing)

-----------------------------------------------------------------------------
(* Subscription Reset Controller                                            *)

\* conn.subscription is a dict in insertion order: a sequence of
\* <<channel, symbols>> with distinct channels
SubChannels(sub) == {sub[i][1] : i \in 1..Len(sub)}

SubPairs(sub, chan) ==
    sub[CHOOSE i \in 1..Len(sub) : sub[i][1] = chan][2]

\* the native symbols of the book channel of a subscription
BookPairs(sub) ==
    IF std_channel_to_exchange(L2_BOOK) \in SubChannels(sub)
    THEN SubPairs(sub, std_channel_to_exchange(L2_BOOK))
    ELSE <<>>

\* the cache after the first n symbols of pairs were evicted
RECURSIVE ResetLoop(_, _, _, _)
ResetLoop(mapping, cache, pairs, n) ==
    IF n = 0 THEN cache
    ELSE LET c == ResetLoop(mapping, cache, pairs, n - 1)
             std_pair == exchange_symbol_to_std_symbol(mapping, pairs[n])
         IN  IF std_pair \in DictKeys(c) THEN DictDel(c, std_pair) ELSE c

\* a faulty variant: the whole cache is cleared
ResetWholesale(mapping, cache, sub, info) ==
    [l2_book |-> {}, instrument_info_cache |-> {}]

\* a faulty variant: the instrument info cache is emptied with the books,
\* when the connection subscribes to the book channel
ResetInfoWithBooks(mapping, cache, sub, info) ==
    [l2_book |-> ResetLoop(mapping, cache, BookPairs(sub),
                           Len(BookPairs(sub))),
     instrument_info_cache |->
         IF std_channel_to_exchange(L2_BOOK) \in SubChannels(sub) THEN {}
         ELSE info]

\* a faulty variant: no book is evicted
ResetNothing(mapping, cache, sub, info) ==
    [l2_book |-> cache, instrument_info_cache |-> {}]

\* Mexc.__reset(conn): the cache and the instrument info cache it leaves
\* (info is self._instrument_info_cache as the call finds it)
__reset(mapping, cache, sub, info) ==
    [l2_book |-> ResetLoop(mapping, cache, BookPairs(sub),
                           Len(BookPairs(sub))),
     instrument_info_cache |-> {}]

\* json.dumps({"method": "SUBSCRIPTION", "params": [chan.format(pair)]})
SubscriptionFrame(chan, pair) ==
    [method |-> "SUBSCRIPTION", params |-> <<Format(chan, pair)>>]

\* a faulty variant: one frame a channel, of all the symbols of the channel
RECURSIVE SubscribeLoopBatched(_, _)
SubscribeLoopBatched(sub, n) ==
    IF n = 0 THEN [written |-> <<>>, raised |-> NoError]
    ELSE LET prev == SubscribeLoopBatched(sub, n - 1)
             chan == sub[n][1]
             pairs == sub[n][2]
         IN  IF prev.raised # NoError THEN prev
             ELSE IF ~is_authenticated_channel(exchange_channel_to_std(chan))
             THEN [prev EXCEPT !.written =
                      Append(@, [method |-> "SUBSCRIPTION",
                                 params |-> [j \in 1..Len(pairs) |->
                                                Format(chan, pairs[j])]])]
             ELSE [prev EXCEPT !.raised = "NotImplementedError"]

\* a faulty variant: an authenticated channel is passed over
RECURSIVE SubscribeLoopSkipping(_, _)
SubscribeLoopSkipping(sub, n) ==
    IF n = 0 THEN [written |-> <<>>, raised |-> NoError]
    ELSE LET prev == SubscribeLoopSkipping(sub, n - 1)
             chan == sub[n][1]
             pairs == sub[n][2]
         IN  IF ~is_authenticated_channel(exchange_channel_to_std(chan))
             THEN [prev EXCEPT !.written =
                      @ \o [j \in 1..Len(pairs) |->
                                SubscriptionFrame(chan, pairs[j])]]
             ELSE prev

\* the loop of subscribe over the first n channels: the frames written to
\* the connection and the exception raised
RECURSIVE SubscribeLoop(_, _)
SubscribeLoop(sub, n) ==
    IF n = 0 THEN [written |-> <<>>, raised |-> NoError]
    ELSE LET prev == SubscribeLoop(sub, n - 1)
             chan == sub[n][1]
             pairs == sub[n][2]
         IN  IF prev.raised # NoError THEN prev
             ELSE IF ~is_authenticated_channel(exchange_channel_to_std(chan))
             THEN [prev EXCEPT !.written =
                      @ \o [j \in 1..Len(pairs) |->
                                SubscriptionFrame(chan, pairs[j])]]
             ELSE [prev EXCEPT !.raised = "NotImplementedError"]

\* what subscribe does, in the order it does it: the reset, then the writes
\* and the raise of the loop
StepsOf(loop) ==
    <<"__reset">> \o [j \in 1..Len(loop.written) |-> "write"]
        \o (IF loop.raised = NoError THEN <<>> ELSE <<"raise">>)

\* Mexc.subscribe(connection)
subscribe(mapping, cache, sub, info) ==
    LET reset == __reset(mapping, cache, sub, info)
        loop == SubscribeLoop(sub, Len(sub))
    IN  [l2_book |-> reset.l2_book,
         instrument_info_cache |-> reset.instrument_info_cache,
         written |-> loop.written, raised |-> loop.raised,
         steps |-> StepsOf(loop)]

-----------------------------------------------------------------------------
(* Authentication Signer                                                    *)

\* the seconds a signature stays valid for
AuthWindow == 60

\* hmac.new(key, message, digestmod='sha256').hexdigest(): the digest is
\* kept as the term of what it was computed from (the hash is not computed;
\* no two terms are taken to collide)
HmacSha256Hex(key, message) ==
    [digest |-> "hmac-sha256-hex", key |-> key, message |-> message]

\* a faulty variant: the expiry keeps the milliseconds of the clock
ExpiresUntruncated(now) == now + AuthWindow * MsPerSec

\* expires = int((time.time() + 60)) * 1000, for now = time.time() read in
\* milliseconds
Expires(now) == ((now + AuthWindow * MsPerSec) \div MsPerSec) * MsPerSec

\* Mexc._auth(key_id, key_secret), at the clock reading now
_auth(key_id, key_secret, now) ==
    LET expires == Expires(now)
        signature == HmacSha256Hex(key_secret,
                                   <<"GET/realtime">> \o IntText(expires))
    IN  [op |-> "auth", args |-> <<key_id, expires, signature>>]

\* any(is_authenticated_channel(exchange_channel_to_std(chan)) for chan in
\* conn.subscription)
AnyAuthenticated(sub) ==
    \E i \in 1..Len(sub) :
        is_authenticated_channel(exchange_channel_to_std(sub[i][1]))

\* a faulty variant: the payload is sent whatever the subscription
authenticate_always(sub, key_id, key_secret, now) ==
    <<_auth(key_id, key_secret, now)>>

\* Mexc.authenticate(conn): the payloads written to the connection
authenticate(sub, key_id, key_secret, now) ==
    IF AnyAuthenticated(sub) THEN <<_auth(key_id, key_secret, now)>>
    ELSE <<>>

-----------------------------------------------------------------------------
(* The adapter with its connections: configuration and inputs               *)

Conns == {"conn-1", "conn-2"}

\* self.key_id, self.key_secret
KeyId == <<"key-id">>
KeySecret == <<"key-secret">>

BookChannel == std_channel_to_exchange(L2_BOOK)
OrderChannel == std_channel_to_exchange(ORDER_INFO)

\* the subscriptions a connection is configured with: the symbols of the
\* book channel are sharded over the connections, no symbol on both
Subscriptions ==
    [ {"conn-1"} ->
         { << <<BookChannel, << <<"BTCUSDT">>, <<"ETHUSDT">> >> >> >>,
           << <<BookChannel, << <<"BTCUSDT">>, <<"ETHUSDT">> >> >>,
              <<OrderChannel, << <<"BTCUSDT">> >> >> >>,
           << <<OrderChannel, << <<"BTCUSDT">> >> >>,
              <<BookChannel, << <<"BTCUSDT">>, <<"ETHUSDT">> >> >> >> } ]
    \cup
    [ {"conn-2"} ->
         { << <<BookChannel, << <<"ETHBTC">> >> >> >>,
           << >> } ]

\* time.time(): milliseconds, read at the start and at the end of a second
ClockReadings == {sec * MsPerSec + f : sec \in 0..MaxSec, f \in {0, 999}}

Text_100_5 == <<"1", "0", "0", ".", "5">>
Text_101_0 == <<"1", "0", "1", ".", "0">>
Text_101 == <<"1", "0", "1">>
Text_102 == <<"1", "0", "2">>
Text_99 == <<"9", "9">>
Text_1 == <<"1">>
Text_2 == <<"2">>
Text_3 == <<"3">>
Text_Malformed == <<"1", "x">>
Text_Ms == <<"1", "7", "0", "0", "0", "0", "0", "0", "0", "0", "0", "0", "0">>
Text_Ms123 == <<"1", "7", "0", "0", "0", "0", "0", "0", "0", "0", "1", "2", "3">>

Level(p, v) == [p |-> p, v |-> v]

IntTime(digits) == [kind |-> "int", text |-> digits]
StrTime(text) == [kind |-> "str", text |-> text]
NoTime == [kind |-> "missing", text |-> <<>>]

Depth(bids, asks) == [present |-> TRUE, bids |-> bids, asks |-> asks]
NoDepth == [present |-> FALSE, bids |-> <<>>, asks |-> <<>>]

\* the event time and the levels of the depth frames fed to the adapter;
\* a snapshot lists a price once per side
DepthContents ==
    { <<StrTime(Text_Ms),
        Depth(<<Level(Text_100_5, Text_2)>>, <<Level(Text_101_0, Text_1)>>)>>,
      <<IntTime(Text_Ms),
        Depth(<<Level(Text_100_5, Text_3), Level(Text_99, Text_1)>>,
              <<Level(Text_101, Text_2), Level(Text_102, Text_1)>>)>>,
      <<IntTime(Text_Ms123),
        Depth(<<Level(Text_99, Text_2)>>, <<Level(Text_102, Text_3)>>)>>,
      <<IntTime(Text_Ms),
        Depth(<<Level(Text_99, Text_1), Level(Text_Malformed, Text_1)>>,
              <<Level(Text_101_0, Text_1)>>)>>,
      <<StrTime(Text_Malformed),
        Depth(<<Level(Text_100_5, Text_2)>>, <<Level(Text_101_0, Text_1)>>)>> }

\* a depth frame as the exchange sends it: the channel tag, the symbol, the
\* event time and the data block
DepthFrame(native, td) ==
    [c |-> Format(BookChannel, native), s |-> native, t |-> td[1], d |-> td[2]]

\* a frame of the keys c, t and d only
TagOnlyFrame(native, td) ==
    [c |-> Format(BookChannel, native), s |-> Missing, t |-> td[1], d |-> td[2]]

\* frames of other channels: an unknown tag, no tag (the answer to a
\* subscription request), the tag of the order channel
OtherFrames ==
    { [c |-> <<"foo", ".", "bar">>, s |-> Missing, t |-> NoTime, d |-> NoDepth],
      [c |-> Missing, s |-> Missing, t |-> NoTime, d |-> NoDepth],
      [c |-> OrderChannel, s |-> <<"BTCUSDT">>, t |-> IntTime(Text_Ms),
       d |-> NoDepth] }

Seq2Set(q) == {q[i] : i \in 1..Len(q)}

\* the frames the exchange sends on a connection: depth frames of the
\* symbols the connection subscribed to, and frames of other channels
FramesOf(sub) ==
    {DepthFrame(native, td) : native \in Seq2Set(BookPairs(sub)),
                              td \in DepthContents}
    \cup {TagOnlyFrame(native, td) : native \in Seq2Set(BookPairs(sub)),
                                     td \in {x \in DepthContents :
                                                x[1] = StrTime(Text_Ms)}}
    \cup OtherFrames

NoMsg == [c |-> Missing, s |-> Missing, t |-> NoTime, d |-> NoDepth]

\* the record of an operation: what was called, on which connection, with
\* which frame and clock reading, and what the call did
\* (evicted: the symbols whose books the call removed; replaced: the call
\* put a book in the place of a different one; afterWarning: the call before
\* it, on the same connection, handled a frame by logging it; steps: what
\* the call did, in the order it did it; cleared: the call emptied an
\* instrument info cache that held something)
Op(op, conn, msg, now, raised, emitted, logged, written, evicted, pair, replaced, afterWarning, steps, cleared) ==
    [op |-> op, conn |-> conn, msg |-> msg, now |-> now, raised |-> raised,
     emitted |-> emitted, logged |-> logged, written |-> written,
     evicted |-> evicted, pair |-> pair, replaced |-> replaced,
     afterWarning |-> afterWarning, steps |-> steps, cleared |-> cleared]

-----------------------------------------------------------------------------
(* The adapter with its connections: the state machine                      *)

Init ==
    /\ std_symbol_mapping = _parse_symbol_data(ExchangeInfo).ret
    /\ l2_book = {}
    /\ instrument_info_cache = _parse_symbol_data(ExchangeInfo).info
    /\ \E s1 \in Subscriptions, s2 \in Subscriptions :
          /\ DOMAIN s1 = {"conn-1"}
          /\ DOMAIN s2 = {"conn-2"}
          /\ subscription = [k \in Conns |->
                                IF k = "conn-1" THEN s1[k] ELSE s2[k]]
    /\ connState = [k \in Conns |-> "closed"]
    /\ epoch = [k \in Conns |-> 0]
    /\ builtIn = {}
    /\ last = Op("init", "none", NoMsg, 0, NoError, <<>>, <<>>, <<>>, {},
                 Missing, FALSE, FALSE, <<>>, FALSE)
    /\ authCalls = <<>>
    /\ authSent = [k \in Conns |-> FALSE]

\* a connection is established and the feed calls authenticate on it
Authenticate(k) ==
    /\ connState[k] = "closed"
    /\ epoch[k] < MaxEpoch
    /\ \E now \in ClockReadings :
          \E written \in {authenticate(subscription[k], KeyId, KeySecret, now)} :
              /\ last' = Op("authenticate", k, NoMsg, now, NoError, <<>>, <<>>,
                            written, {}, Missing, FALSE, FALSE, <<>>, FALSE)
              /\ authSent' = [authSent EXCEPT ![k] = written # <<>>]
    /\ connState' = [connState EXCEPT ![k] = "connected"]
    /\ epoch' = [epoch EXCEPT ![k] = @ + 1]
    /\ UNCHANGED <<std_symbol_mapping, l2_book, instrument_info_cache,
                   subscription, builtIn, authCalls>>

\* the feed calls subscribe on the connection; the connection is dropped
\* when subscribe raises
Subscribe(k) ==
    /\ connState[k] = "connected"
    /\ \E r \in {subscribe(std_symbol_mapping, l2_book, subscription[k],
                        instrument_info_cache)} :
           /\ l2_book' = r.l2_book
           /\ instrument_info_cache' = r.instrument_info_cache
           /\ builtIn' = {e \in builtIn : e[1] \in DictKeys(r.l2_book)}
           /\ connState' = [connState EXCEPT ![k] =
                               IF r.raised = NoError THEN "open" ELSE "closed"]
           /\ last' = Op("subscribe", k, NoMsg, 0, r.raised, <<>>, <<>>,
                         r.written, DictKeys(l2_book) \ DictKeys(r.l2_book),
                         Missing, FALSE, FALSE, r.steps,
                         /\ instrument_info_cache # {}
                         /\ r.instrument_info_cache = {})
    /\ UNCHANGED <<std_symbol_mapping, subscription, epoch, authCalls, authSent>>

\* message_handler runs on msg, a frame read from connection k; the
\* connection is dropped when the handler raises
Handle(k, msg) ==
    /\ \E r \in {message_handler(std_symbol_mapping, l2_book, msg, k)} :
           /\ l2_book' = r.l2_book
           /\ builtIn' = IF r.pair = Missing THEN builtIn
                         ELSE DictPut(builtIn, r.pair, <<k, epoch[k]>>)
           /\ connState' = [connState EXCEPT ![k] =
                               IF r.raised = NoError THEN "open"
                               ELSE "closed"]
           /\ last' = Op("message_handler", k, msg, 0, r.raised, r.emitted,
                         r.logged, <<>>, {}, r.pair,
                         /\ r.pair \in DictKeys(l2_book)
                         /\ DictGet(l2_book, r.pair)
                                # DictGet(r.l2_book, r.pair),
                         /\ last.op = "message_handler"
                         /\ last.conn = k
                         /\ last.logged # <<>>,
                         <<>>, FALSE)
    /\ UNCHANGED <<std_symbol_mapping, instrument_info_cache, subscription,
                   epoch, authCalls, authSent>>

\* the read loop of an open connection hands a frame to message_handler
MessageHandler(k) ==
    /\ connState[k] = "open"
    /\ \E msg \in FramesOf(subscription[k]) : Handle(k, msg)

\* the transport loses an open connection
Disconnect(k) ==
    /\ connState[k] = "open"
    /\ connState' = [connState EXCEPT ![k] = "closed"]
    /\ last' = Op("disconnect", k, NoMsg, 0, NoError, <<>>, <<>>, <<>>, {},
                  Missing, FALSE, FALSE, <<>>, FALSE)
    /\ UNCHANGED <<std_symbol_mapping, l2_book, instrument_info_cache,
                   subscription, epoch, builtIn, authCalls, authSent>>

Next ==
    \E k \in Conns :
        \/ Authenticate(k)
        \/ Subscribe(k)
        \/ MessageHandler(k)
        \/ Disconnect(k)

Spec == Init /\ [][Next]_vars

-----------------------------------------------------------------------------
(* The Symbol Mapper on its own: the symbol table is rebuilt from the        *)
(* instrument lists the exchange may answer with                            *)

Statuses == {<<"str", "ENABLED">>, <<"str", "">>, <<"bool", "false">>}

InstrumentRecords ==
    [status : Statuses,
     symbol : {<<"BTCUSDT">>, <<"BTC_USDT">>},
     baseAsset : {<<"BTC">>, <<"ETH">>},
     quoteAsset : {<<"USDT">>}]

InstrumentLists ==
    UNION {[1..n -> InstrumentRecords] : n \in 0..MaxRecords}

\* the table the feed holds before the call: none, or that of an earlier list
InitSym ==
    /\ std_symbol_mapping \in {{}, _parse_symbol_data(ExchangeInfo).ret}
    /\ l2_book = {}
    /\ instrument_info_cache = {}
    /\ subscription = [k \in Conns |-> <<>>]
    /\ connState = [k \in Conns |-> "closed"]
    /\ epoch = [k \in Conns |-> 0]
    /\ builtIn = {}
    /\ last = [op |-> "init", data |-> [symbols |-> <<>>], before |-> {}]
    /\ authCalls = <<>>
    /\ authSent = [k \in Conns |-> FALSE]

\* the feed loads an instrument list and takes the table
\* _parse_symbol_data returns as its symbol table (before: the table the
\* feed held until then)
ParseSymbolData(data) ==
    /\ last.op = "init"
    /\ std_symbol_mapping' = _parse_symbol_data(data).ret
    /\ last' = [op |-> "_parse_symbol_data", data |-> data,
                before |-> std_symbol_mapping]
    /\ UNCHANGED <<l2_book, instrument_info_cache, subscription, connState,
                   epoch, builtIn, authCalls, authSent>>

NextSym == \E entries \in InstrumentLists : ParseSymbolData([symbols |-> entries])

SpecSym == InitSym /\ [][NextSym]_vars

-----------------------------------------------------------------------------
(* The Authentication Signer on its own: _auth is called with the           *)
(* credentials and clock readings below                                     *)

KeyIds == {<<"key-id">>, <<"other-key-id">>}
KeySecrets == {<<"key-secret">>, <<"other-key-secret">>}

InitAuth ==
    /\ std_symbol_mapping = {}
    /\ l2_book = {}
    /\ instrument_info_cache = {}
    /\ subscription = [k \in Conns |-> <<>>]
    /\ connState = [k \in Conns |-> "closed"]
    /\ epoch = [k \in Conns |-> 0]
    /\ builtIn = {}
    /\ last = [op |-> "init"]
    /\ authCalls = <<>>
    /\ authSent = [k \in Conns |-> FALSE]

Auth(key_id, key_secret, now) ==
    /\ Len(authCalls) < MaxAuthCalls
    /\ authCalls' = Append(authCalls,
                           [key_id |-> key_id, key_secret |-> key_secret,
                            now |-> now,
                            payload |-> _auth(key_id, key_secret, now)])
    /\ last' = [op |-> "_auth"]
    /\ UNCHANGED <<std_symbol_mapping, l2_book, instrument_info_cache,
                   subscription, connState, epoch, builtIn, authSent>>

NextAuth ==
    \E key_id \in KeyIds, key_secret \in KeySecrets, now \in ClockReadings :
        Auth(key_id, key_secret, now)

SpecAuth == InitAuth /\ [][NextAuth]_vars

-----------------------------------------------------------------------------
(* The Order Book Builder on its own: message_handler is handed one depth   *)
(* frame whose levels may be malformed at any position                     *)

\* a side of a frame holds at most this many levels
MaxLevels == 2

LevelTexts == [p : {Text_99, Text_Malformed}, v : {Text_1, Text_Malformed}]

LevelLists == UNION {[1..n -> LevelTexts] : n \in 0..MaxLevels}

BookFrames ==
    {DepthFrame(<<"BTCUSDT">>, <<t, Depth(bids, asks)>>) :
        t \in {IntTime(Text_Ms), StrTime(Text_Ms123)},
        bids \in LevelLists, asks \in LevelLists}

\* the book of an earlier frame of the symbol
EarlierBook ==
    [bid |-> {<<Decimal(Text_100_5), Decimal(Text_2)>>},
     ask |-> {<<Decimal(Text_101_0), Decimal(Text_1)>>}]

\* connection conn-1 is open and reads the frames of its symbols; the cache
\* holds no book or the book of an earlier frame
InitBook ==
    /\ std_symbol_mapping = _parse_symbol_data(ExchangeInfo).ret
    /\ l2_book \in {{}, {<<BookSymbol(std_symbol_mapping,
                                       [s |-> <<"BTCUSDT">>]), EarlierBook>>}}
    /\ instrument_info_cache = {}
    /\ subscription = [k \in Conns |->
                          IF k = "conn-1"
                          THEN << <<BookChannel,
                                    << <<"BTCUSDT">>, <<"ETHUSDT">> >> >> >>
                          ELSE <<>>]
    /\ connState = [k \in Conns |-> IF k = "conn-1" THEN "open" ELSE "closed"]
    /\ epoch = [k \in Conns |-> IF k = "conn-1" THEN 1 ELSE 0]
    /\ builtIn = {<<e[1], <<"conn-1", 1>> >> : e \in l2_book}
    /\ last = Op("init", "none", NoMsg, 0, NoError, <<>>, <<>>, <<>>, {},
                 Missing, FALSE, FALSE, <<>>, FALSE)
    /\ authCalls = <<>>
    /\ authSent = [k \in Conns |-> FALSE]

HandleBookFrame(msg) ==
    /\ last.op = "init"
    /\ Handle("conn-1", msg)

NextBook == \E msg \in BookFrames : HandleBookFrame(msg)

SpecBook == InitBook /\ [][NextBook]_vars

-----------------------------------------------------------------------------
(* The Subscription Reset Controller on its own: subscribe is called once   *)
(* on a connection, whatever its subscription and whatever the caches hold  *)

\* a channel of a subscription holds at most this many symbols
MaxPairs == 2

NativeSymbols == {e[2] : e \in _parse_symbol_data(ExchangeInfo).ret}

\* the lists of symbols of a channel: no symbol twice
PairLists ==
    {q \in UNION {[1..n -> NativeSymbols] : n \in 0..MaxPairs} :
        \A i, j \in 1..Len(q) : i # j => q[i] # q[j]}

OrderOnly == <<OrderChannel, << <<"BTCUSDT">> >> >>

\* conn.subscription: no channel, the order channel, the book channel, or
\* both in either order
ResetSubscriptions ==
    {<<>>, <<OrderOnly>>}
    \cup {<< <<BookChannel, q>> >> : q \in PairLists}
    \cup {<< <<BookChannel, q>>, OrderOnly >> : q \in PairLists}
    \cup {<< OrderOnly, <<BookChannel, q>> >> : q \in PairLists}

\* self._l2_book as earlier frames left it: a book for some of the symbols
ResetCaches ==
    {{<<std, EarlierBook>> : std \in stds} :
        stds \in SUBSET DictKeys(_parse_symbol_data(ExchangeInfo).ret)}

\* self._instrument_info_cache as the previous connection epoch left it
InfoCaches == {{}, {<< <<"BTCUSDT">>, <<"instrument-info">> >>}}

InitReset ==
    /\ std_symbol_mapping = _parse_symbol_data(ExchangeInfo).ret
    /\ l2_book \in ResetCaches
    /\ instrument_info_cache \in InfoCaches
    /\ \E sub \in ResetSubscriptions :
          /\ subscription = [k \in Conns |->
                                IF k = "conn-1" THEN sub ELSE <<>>]
          /\ authSent = [k \in Conns |->
                            k = "conn-1"
                            /\ authenticate(sub, KeyId, KeySecret, 0) # <<>>]
    /\ connState = [k \in Conns |->
                       IF k = "conn-1" THEN "connected" ELSE "closed"]
    /\ epoch = [k \in Conns |-> IF k = "conn-1" THEN 2 ELSE 1]
    /\ builtIn = {<<e[1], <<"conn-1", 1>> >> : e \in l2_book}
    /\ last = Op("init", "none", NoMsg, 0, NoError, <<>>, <<>>, <<>>, {},
                 Missing, FALSE, FALSE, <<>>, FALSE)
    /\ authCalls = <<>>

NextReset == Subscribe("conn-1")

SpecReset == InitReset /\ [][NextReset]_vars

-----------------------------------------------------------------------------
(* The event times: timestamp_normalize is called on an event time, and     *)
(* message_handler is handed a depth frame of that event time              *)

Text_Seconds == <<"1", "7", "0", "0", "0", "0", "0", "0", "0", "0">>

\* the digits the milliseconds of an event time are written with
MsDigits == {"0", "1", "9"}

\* epoch milliseconds, as digits
MsTexts ==
    {Text_Seconds \o <<a, b, c>> : a \in MsDigits, b \in MsDigits,
                                   c \in MsDigits}

DateTime(digits) == [kind |-> "datetime", text |-> digits]

\* an event time: an int, the str of the same digits, a datetime
TimeValues ==
    {IntTime(t) : t \in MsTexts} \cup {StrTime(t) : t \in MsTexts}
        \cup {DateTime(t) : t \in MsTexts}

TimedFrames ==
    {DepthFrame(<<"BTCUSDT">>,
                <<ts, Depth(<<Level(Text_100_5, Text_2)>>,
                            <<Level(Text_101_0, Text_1)>>)>>) :
        ts \in {x \in TimeValues : x.kind \in {"int", "str"}}}

\* a call of timestamp_normalize
TimestampNormalize(ts) ==
    /\ last.op = "init"
    /\ \E r \in {timestamp_normalize(ts)} :
           last' = [op |-> "timestamp_normalize", ts |-> ts,
                    raised |-> r.raised, value |-> r.value]
    /\ UNCHANGED <<std_symbol_mapping, l2_book, instrument_info_cache,
                   subscription, connState, epoch, builtIn, authCalls,
                   authSent>>

HandleTimedFrame(msg) ==
    /\ last.op = "init"
    /\ Handle("conn-1", msg)

NextTime ==
    \/ \E ts \in TimeValues : TimestampNormalize(ts)
    \/ \E msg \in TimedFrames : HandleTimedFrame(msg)

SpecTime == InitBook /\ [][NextTime]_vars

-----------------------------------------------------------------------------
(* Properties                                                               *)

\* the (price, size) pairs a list of levels of a frame writes
FramePairs(levels) ==
    {<<Decimal(levels[i].p), Decimal(levels[i].v)>> : i \in 1..Len(levels)}

\* the normalized symbols of the book channel of connection k
OwnedBy(k) ==
    {e[1] : e \in {x \in std_symbol_mapping :
                      x[2] \in Seq2Set(BookPairs(subscription[k]))}}

IsDepthTag(msg) == StartsWith(ChannelTag(msg), DepthPrefix)

\* a depth frame whose levels and event time are well formed
WellFormed(msg) ==
    /\ msg.d.present
    /\ \A i \in 1..Len(msg.d.bids) :
          IsDecimalText(msg.d.bids[i].p) /\ IsDecimalText(msg.d.bids[i].v)
    /\ \A i \in 1..Len(msg.d.asks) :
          IsDecimalText(msg.d.asks[i].p) /\ IsDecimalText(msg.d.asks[i].v)
    /\ \/ msg.t.kind = "int"
       \/ msg.t.kind = "str" /\ IsIntText(msg.t.text)

\* C1: after every depth frame that message_handler processed without an
\* error, the cache entry of the frame's symbol, which is the book of the
\* event emitted, holds on its bid side exactly the (price, size) pairs of
\* the frame's bids and on its ask side exactly those of the frame's asks:
\* no level of an earlier frame is left.
C1_BookIsTheFrame ==
    (last.op = "message_handler" /\ IsDepthTag(last.msg)
        /\ last.raised = NoError)
    => /\ last.pair \in DictKeys(l2_book)
       /\ DictGet(l2_book, last.pair).bid = FramePairs(last.msg.d.bids)
       /\ DictGet(l2_book, last.pair).ask = FramePairs(last.msg.d.asks)
       /\ Len(last.emitted) = 1
       /\ last.emitted[1].book = DictGet(l2_book, last.pair)

\* a frame was processed whose book took the place of a different book of
\* the same symbol
C1_Witness ==
    /\ last.op = "message_handler"
    /\ IsDepthTag(last.msg)
    /\ last.raised = NoError
    /\ last.replaced

\* the frame of the end-to-end example
ExampleFrame ==
    [c |-> <<"spot@public", ".", "limit", ".", "depth", ".", "v3", ".",
             "api@", "BTCUSDT", "@10">>,
     s |-> <<"BTCUSDT">>,
     t |-> StrTime(Text_Ms),
     d |-> Depth(<<Level(Text_100_5, Text_2)>>, <<Level(Text_101_0, Text_1)>>)]

C3_ResetEvictsOwnBooksOnly ==
    [][ last'.op = "subscribe"
        => /\ DictKeys(l2_book') \cap OwnedBy(last'.conn) = {}
           /\ \A e \in l2_book : e[1] \notin OwnedBy(last'.conn) => e \in l2_book'
           /\ l2_book' \subseteq l2_book
           /\ last'.raised \in {NoError, "NotImplementedError"}
           /\ last'.raised = "NotImplementedError"
              => OrderChannel \in SubChannels(subscription[last'.conn]) ]_vars

\* subscribe ran on the connection of two symbols, evicted the book of one
\* and found none for the other, and the book of the other connection's
\* symbol is in the cache
C3_Witness ==
    /\ last.op = "subscribe"
    /\ last.conn = "conn-1"
    /\ Cardinality(OwnedBy("conn-1")) = 2
    /\ Cardinality(last.evicted) = 1
    /\ DictKeys(l2_book) \cap OwnedBy("conn-2") # {}

\* both books of the connection of two symbols were evicted
C3_WitnessBoth ==
    /\ last.op = "subscribe"
    /\ last.conn = "conn-1"
    /\ Cardinality(last.evicted) = 2
    /\ DictKeys(l2_book) \cap OwnedBy("conn-2") # {}

\* C4: whatever the interleaving of the frames and the reconnections of the
\* connections, every book the cache holds for a symbol of a connection that
\* has subscribed and is reading frames was built from a frame of that
\* connection in its current epoch.
C4_NoStaleBook ==
    \A k \in Conns :
        connState[k] = "open"
        => \A std \in OwnedBy(k) \cap DictKeys(l2_book) :
              /\ std \in DictKeys(builtIn)
              /\ DictGet(builtIn, std) = <<k, epoch[k]>>

\* a connection was established again, after it had built a book, and
\* holds a book of its second epoch while the other connection holds one too
C4_Witness ==
    \E k \in Conns :
        /\ connState[k] = "open"
        /\ epoch[k] >= 2
        /\ OwnedBy(k) \cap DictKeys(l2_book) # {}
        /\ \E j \in Conns \ {k} : OwnedBy(j) \cap DictKeys(l2_book) # {}

\* C5, as the claim states it: when the subscription holds an authenticated
\* channel, subscribe raises and has written no SUBSCRIPTION frame before.
C5_NoFrameBeforeTheError ==
    (last.op = "subscribe"
        /\ OrderChannel \in SubChannels(subscription[last.conn]))
    => /\ last.raised = "NotImplementedError"
       /\ last.written = <<>>

\* C6: a frame whose channel tag does not start with the depth prefix, or
\* that has no channel tag, yields no event and one warning tagged with the
\* connection, raises nothing, leaves the cache as it was and the connection
\* reading; the well formed depth frame that comes next yields its event.
C6_UnhandledFrameIsLogged ==
    [][ /\ (last'.op = "message_handler" /\ ~IsDepthTag(last'.msg))
           => /\ last'.emitted = <<>>
              /\ Len(last'.logged) = 1
              /\ last'.logged[1].level = "warning"
              /\ last'.logged[1].uuid = last'.conn
              /\ last'.raised = NoError
              /\ l2_book' = l2_book
              /\ connState'[last'.conn] = "open"
        /\ (last'.op = "message_handler" /\ last'.afterWarning
               /\ IsDepthTag(last'.msg) /\ last'.msg.s # Missing
               /\ WellFormed(last'.msg))
           => /\ Len(last'.emitted) = 1
              /\ last'.raised = NoError ]_vars

\* a frame without a channel tag was logged
C6_Witness ==
    /\ last.op = "message_handler"
    /\ last.msg.c = Missing
    /\ Len(last.logged) = 1

\* a depth frame was processed right after a frame that was logged
C6_WitnessNext ==
    /\ last.op = "message_handler"
    /\ last.afterWarning
    /\ Len(last.emitted) = 1

\* C7, as the claim states it: a frame of the private order channel handed
\* to the adapter is rejected with the unimplemented error.
C7_OrderFrameIsRejected ==
    (last.op = "message_handler" /\ last.msg.c = OrderChannel)
    => last.raised = "NotImplementedError"

\* the records of an instrument list with a truthy status
Active(entries) == {i \in 1..Len(entries) : Truthy(entries[i].status)}

Canonical(entry) == entry.baseAsset \o <<"-">> \o entry.quoteAsset \o <<"-", "SPOT">>

\* the last active record of its canonical symbol
Winners(entries) ==
    {i \in Active(entries) :
        \A j \in Active(entries) :
            j > i => Canonical(entries[j]) # Canonical(entries[i])}

\* no two active records share a canonical symbol or a native symbol
Unambiguous(entries) ==
    \A i, j \in Active(entries) :
        i # j => /\ Canonical(entries[i]) # Canonical(entries[j])
                 /\ entries[i].symbol # entries[j].symbol

\* C8, as the claim states it: for every instrument list the table maps the
\* canonical symbol of every active record to that record's native symbol,
\* one to one, and holds nothing else.
C8_EveryActiveRecordIsMapped ==
    last.op = "_parse_symbol_data"
    => LET entries == last.data.symbols
       IN  /\ \A i \in Active(entries) :
                 <<Canonical(entries[i]), entries[i].symbol>>
                     \in std_symbol_mapping
           /\ \A e, f \in std_symbol_mapping : e[2] = f[2] => e = f
           /\ \A e \in std_symbol_mapping :
                 \E i \in Active(entries) :
                     e = <<Canonical(entries[i]), entries[i].symbol>>

\* C8, amended: the table maps the canonical symbol of every active record
\* that no later active record of the same canonical symbol follows to that
\* record's native symbol, and holds nothing else (so no entry comes from a
\* record of falsy status); when no two active records share a canonical or
\* a native symbol, every active record is mapped and canonical <-> native
\* is a bijection over the active instruments.
C8_LastActiveRecordIsMapped ==
    last.op = "_parse_symbol_data"
    => LET entries == last.data.symbols
       IN  /\ \A i \in Winners(entries) :
                 <<Canonical(entries[i]), entries[i].symbol>>
                     \in std_symbol_mapping
           /\ \A e \in std_symbol_mapping :
                 \E i \in Winners(entries) :
                     e = <<Canonical(entries[i]), entries[i].symbol>>
           /\ Unambiguous(entries)
              => /\ \A i \in Active(entries) :
                       <<Canonical(entries[i]), entries[i].symbol>>
                           \in std_symbol_mapping
                 /\ \A e, f \in std_symbol_mapping :
                       (e[1] = f[1] \/ e[2] = f[2]) => e = f
                 /\ Cardinality(std_symbol_mapping)
                        = Cardinality(Active(entries))

\* a list was parsed of two active records of one canonical symbol and
\* different native symbols, followed by an inactive record of another
\* instrument
C8_Witness ==
    /\ last.op = "_parse_symbol_data"
    /\ Len(last.data.symbols) = 3
    /\ Active(last.data.symbols) = {1, 2}
    /\ Canonical(last.data.symbols[1]) = Canonical(last.data.symbols[2])
    /\ last.data.symbols[1].symbol # last.data.symbols[2].symbol
    /\ Canonical(last.data.symbols[3]) # Canonical(last.data.symbols[1])
    /\ Cardinality(std_symbol_mapping) = 1

\* a list of two active records of different instruments was parsed
C8_WitnessUnambiguous ==
    /\ last.op = "_parse_symbol_data"
    /\ Cardinality(Active(last.data.symbols)) = 2
    /\ Unambiguous(last.data.symbols)
    /\ Cardinality(std_symbol_mapping) = 2

\* C9: authenticate writes one authentication payload, made from the clock
\* reading of the call, when a channel of the subscription is authenticated,
\* and writes nothing when none is.
C9_AuthenticateWritesOnce ==
    last.op = "authenticate"
    => IF OrderChannel \in SubChannels(subscription[last.conn])
       THEN /\ Len(last.written) = 1
            /\ last.written[1].op = "auth"
            /\ last.written[1].args[1] = KeyId
            /\ last.written[1].args[2] = ((last.now \div 1000) + 60) * 1000
            /\ last.written[1].args[3].message
                   = <<"GET/realtime">> \o IntText(last.written[1].args[2])
       ELSE last.written = <<>>

\* authenticate wrote a payload on a connection established for the second
\* time, at a later second than the first reading of the clock
C9_Witness ==
    /\ last.op = "authenticate"
    /\ epoch[last.conn] >= 2
    /\ last.now >= 1000
    /\ Len(last.written) = 1

\* authenticate wrote nothing
C9_WitnessNone ==
    /\ last.op = "authenticate"
    /\ last.written = <<>>

\* C10: the expiry of a payload is (the whole seconds of the clock + 60)
\* * 1000; the signed string is "GET/realtime" followed by that expiry and
\* the key is the secret; two calls of one secret and one expiry give one
\* signature, whatever the key id; two calls of the same credentials in the
\* same second give the same payload.
C10_AuthIsDeterministic ==
    \A i, j \in 1..Len(authCalls) :
        LET a == authCalls[i]
            b == authCalls[j]
        IN  /\ a.payload.op = "auth"
            /\ Len(a.payload.args) = 3
            /\ a.payload.args[1] = a.key_id
            /\ a.payload.args[2] = ((a.now \div 1000) + 60) * 1000
            /\ a.payload.args[2] % 1000 = 0
            /\ a.payload.args[3].key = a.key_secret
            /\ a.payload.args[3].message
                   = <<"GET/realtime">> \o IntText(a.payload.args[2])
            /\ (a.key_secret = b.key_secret
                   /\ a.payload.args[2] = b.payload.args[2])
               => a.payload.args[3] = b.payload.args[3]
            /\ (a.key_id = b.key_id /\ a.key_secret = b.key_secret
                   /\ a.now \div 1000 = b.now \div 1000)
               => a.payload = b.payload

\* _auth was called twice with the same credentials at two readings of the
\* same second
C10_Witness ==
    \E i, j \in 1..Len(authCalls) :
        /\ authCalls[i].key_id = authCalls[j].key_id
        /\ authCalls[i].key_secret = authCalls[j].key_secret
        /\ authCalls[i].now # authCalls[j].now
        /\ authCalls[i].now \div 1000 = authCalls[j].now \div 1000


\* the levels of a data block are all well formed
LevelsWellFormed(d) ==
    /\ d.present
    /\ \A i \in 1..Len(d.bids) :
          IsDecimalText(d.bids[i].p) /\ IsDecimalText(d.bids[i].v)
    /\ \A i \in 1..Len(d.asks) :
          IsDecimalText(d.asks[i].p) /\ IsDecimalText(d.asks[i].v)

\* C11: a depth frame that message_handler handed to the Order Book Builder
\* and that was processed without an error yields exactly one book-update
\* event; every event a call emits carries the book of all the levels of
\* the frame's bids and asks, never the book of a part of them.
C11_OneEventOfTheFullBook ==
    last.op = "message_handler"
    => /\ (IsDepthTag(last.msg) /\ last.raised = NoError)
          => Len(last.emitted) = 1
       /\ \A i \in 1..Len(last.emitted) :
             /\ LevelsWellFormed(last.msg.d)
             /\ last.emitted[i].book.bid = FramePairs(last.msg.d.bids)
             /\ last.emitted[i].book.ask = FramePairs(last.msg.d.asks)
             /\ Cardinality(last.emitted[i].book.bid)
                    + Cardinality(last.emitted[i].book.ask)
                    = Len(last.msg.d.bids) + Len(last.msg.d.asks)

\* a frame of two bids and two asks was processed and its event emitted
C11_Witness ==
    /\ last.op = "message_handler"
    /\ IsDepthTag(last.msg)
    /\ last.raised = NoError
    /\ Len(last.msg.d.bids) = 2
    /\ Len(last.msg.d.asks) = 2
    /\ Len(last.emitted) = 1
    /\ Cardinality(last.emitted[1].book.bid) = 2
    /\ Cardinality(last.emitted[1].book.ask) = 2

\* the book a complete depth frame builds
BookOf(d) == [bid |-> FramePairs(d.bids), ask |-> FramePairs(d.asks)]

\* C12, as the claim states it: after message_handler returned or raised,
\* every book of the cache is the fully populated book of one complete depth
\* frame; the cache never holds an empty or a partly populated book.
C12_CacheHoldsCompleteBooksOnly ==
    \A e \in l2_book :
        \E td \in DepthContents :
            /\ LevelsWellFormed(td[2])
            /\ e[2] = BookOf(td[2])

\* a level of the data block is malformed
SomeLevelMalformed(d) ==
    /\ d.present
    /\ \/ \E i \in 1..Len(d.bids) :
             ~(IsDecimalText(d.bids[i].p) /\ IsDecimalText(d.bids[i].v))
       \/ \E i \in 1..Len(d.asks) :
             ~(IsDecimalText(d.asks[i].p) /\ IsDecimalText(d.asks[i].v))

\* C13: a depth frame whose data block holds a malformed price or size, at
\* whatever position of bids or asks, makes message_handler raise the
\* decoding error of the decimal text (it is not caught and the connection
\* stops reading), and no book-update event is emitted for the frame.
C13_MalformedLevelRaises ==
    (last.op = "message_handler" /\ IsDepthTag(last.msg)
        /\ last.msg.s # Missing /\ SomeLevelMalformed(last.msg.d))
    => /\ last.raised = "InvalidOperation"
       /\ last.emitted = <<>>
       /\ last.logged = <<>>
       /\ connState[last.conn] = "closed"

\* the frame handled had two well formed bids, a well formed ask and a
\* malformed size in its last ask
C13_Witness ==
    /\ last.op = "message_handler"
    /\ Len(last.msg.d.bids) = 2
    /\ Len(last.msg.d.asks) = 2
    /\ \A i \in 1..2 : IsDecimalText(last.msg.d.bids[i].p)
                       /\ IsDecimalText(last.msg.d.bids[i].v)
    /\ IsDecimalText(last.msg.d.asks[1].p) /\ IsDecimalText(last.msg.d.asks[1].v)
    /\ IsDecimalText(last.msg.d.asks[2].p)
    /\ ~IsDecimalText(last.msg.d.asks[2].v)
    /\ last.raised = "InvalidOperation"

\* the frame handled had a malformed price in its first bid
C13_WitnessFirst ==
    /\ last.op = "message_handler"
    /\ Len(last.msg.d.bids) >= 1
    /\ ~IsDecimalText(last.msg.d.bids[1].p)
    /\ last.raised = "InvalidOperation"

\* the book channel's template filled with a native symbol
DepthChannelOf(native) ==
    <<"spot@public", ".", "limit", ".", "depth", ".", "v3", ".", "api@">>
        \o native \o <<"@10">>

\* C14: when the subscription holds no authenticated channel, subscribe
\* raises nothing and writes, for every symbol of the book channel and in
\* their order, one SUBSCRIPTION frame whose params is the one string of the
\* channel's template filled with the symbol, and no other frame: as many
\* frames as subscribed pairs.
C14_OneFramePerPair ==
    (last.op = "subscribe"
        /\ OrderChannel \notin SubChannels(subscription[last.conn]))
    => LET pairs == BookPairs(subscription[last.conn])
       IN  /\ last.raised = NoError
           /\ Len(last.written) = Len(pairs)
           /\ \A j \in 1..Len(pairs) :
                 last.written[j] = [method |-> "SUBSCRIPTION",
                                    params |-> <<DepthChannelOf(pairs[j])>>]

\* subscribe wrote the two frames of a book channel of two symbols
C14_Witness ==
    /\ last.op = "subscribe"
    /\ OrderChannel \notin SubChannels(subscription[last.conn])
    /\ Len(BookPairs(subscription[last.conn])) = 2
    /\ Len(last.written) = 2
    /\ last.written[1] # last.written[2]

\* subscribe wrote nothing for a subscription of no pair
C14_WitnessNone ==
    /\ last.op = "subscribe"
    /\ subscription[last.conn] = <<>>
    /\ last.written = <<>>
    /\ last.raised = NoError

\* C15: every call of subscribe runs the reset first, before any frame is
\* written and before the error of an authenticated channel is raised, and
\* leaves the instrument info cache empty: whether or not the connection
\* subscribes to the book channel, whether or not a book was evicted, and
\* when subscribe raises.
C15_ResetFirstAndInfoCleared ==
    [][ last'.op = "subscribe"
        => /\ instrument_info_cache' = {}
           /\ last'.cleared = (instrument_info_cache # {})
           /\ Len(last'.steps) >= 1
           /\ last'.steps[1] = "__reset"
           /\ \A i \in 2..Len(last'.steps) : last'.steps[i] # "__reset"
           /\ Len(last'.steps) = 1 + Len(last'.written)
                                   + (IF last'.raised = NoError THEN 0 ELSE 1)
      ]_vars

\* subscribe emptied an instrument info cache that held something, on a
\* connection without the book channel, evicted nothing and raised
C15_Witness ==
    /\ last.op = "subscribe"
    /\ last.cleared
    /\ BookChannel \notin SubChannels(subscription[last.conn])
    /\ last.evicted = {}
    /\ last.raised = "NotImplementedError"
    /\ instrument_info_cache = {}

\* subscribe emptied an instrument info cache that held something, evicted
\* a book and wrote its frames
C15_WitnessEvicted ==
    /\ last.op = "subscribe"
    /\ last.cleared
    /\ last.evicted # {}
    /\ Len(last.written) >= 1
    /\ last.raised = NoError
    /\ instrument_info_cache = {}

\* the canonical symbols of the active records of an instrument list
ActiveCanonicals(entries) == {Canonical(entries[i]) : i \in Active(entries)}

\* the last active record of canonical symbol c
LastActiveOf(entries, c) ==
    CHOOSE i \in Active(entries) :
        /\ Canonical(entries[i]) = c
        /\ \A j \in Active(entries) : Canonical(entries[j]) = c => j <= i

\* C16: whatever the instrument list, and whatever table the feed held
\* before, the table _parse_symbol_data returns has as its keys exactly the
\* canonical symbols of the active records of the list, one entry a key,
\* and the value of a key is the native symbol of the last active record of
\* that canonical symbol: a later record overwrites an earlier one of the
\* same canonical symbol, and that is no error.
C16_DuplicateCanonicalLastWins ==
    last.op = "_parse_symbol_data"
    => LET entries == last.data.symbols
       IN  /\ DictKeys(std_symbol_mapping) = ActiveCanonicals(entries)
           /\ Cardinality(std_symbol_mapping)
                  = Cardinality(ActiveCanonicals(entries))
           /\ \A c \in ActiveCanonicals(entries) :
                 DictGet(std_symbol_mapping, c)
                     = entries[LastActiveOf(entries, c)].symbol

\* a list was parsed over an earlier table of other instruments: its first
\* and third records are active, of one canonical symbol and of different
\* native symbols, and an active record of another instrument is between
C16_Witness ==
    /\ last.op = "_parse_symbol_data"
    /\ last.before # {}
    /\ Len(last.data.symbols) = 3
    /\ Active(last.data.symbols) = {1, 2, 3}
    /\ Canonical(last.data.symbols[1]) = Canonical(last.data.symbols[3])
    /\ Canonical(last.data.symbols[2]) # Canonical(last.data.symbols[1])
    /\ last.data.symbols[1].symbol # last.data.symbols[3].symbol
    /\ Cardinality(std_symbol_mapping) = 2
    /\ DictKeys(last.before) \ DictKeys(std_symbol_mapping) # {}

\* the seconds of an event time of epoch milliseconds: the digits but the
\* last three, and the last three as milliseconds
SecondsOf(digits) ==
    [whole |-> NumVal(SubSeq(digits, 1, Len(digits) - 3)),
     millis |-> NumVal(SubSeq(digits, Len(digits) - 2, Len(digits)))]

\* C17, as the claim states it: timestamp_normalize and the exchange
\* timestamp of the book-update event both take an event time of epoch
\* milliseconds, an int or the str of the same digits, to the same seconds,
\* the milliseconds divided by 1000; 1700000000000 and "1700000000000" are
\* taken to 1700000000.
C17_IntAndStrNormalizeAlike ==
    /\ (last.op = "timestamp_normalize" /\ last.ts.kind \in {"int", "str"})
       => /\ last.raised = NoError
          /\ last.value = SecondsOf(last.ts.text)
          /\ last.ts.text = Text_Ms
             => last.value = [whole |-> 1700000000, millis |-> 0]
    /\ (last.op = "message_handler" /\ last.msg.t.kind \in {"int", "str"})
       => /\ last.raised = NoError
          /\ Len(last.emitted) = 1
          /\ last.emitted[1].timestamp = SecondsOf(last.msg.t.text)
          /\ last.msg.t.text = Text_Ms
             => last.emitted[1].timestamp
                    = [whole |-> 1700000000, millis |-> 0]

\* the cache entries of the symbols other than the symbol of a frame (all
\* the entries, for a frame that is no depth frame or names no symbol)
EntriesOfOthers(cache, msg) ==
    IF IsDepthTag(msg) /\ msg.s # Missing
    THEN {e \in cache : <<e[1], LastSegment(msg.s)>> \notin std_symbol_mapping}
    ELSE cache

\* C18: a call of message_handler, whatever frames came before and whatever
\* symbols have a book, changes at most the cache entry of the symbol of its
\* frame: the entries of the other symbols, the symbol table and the
\* instrument info cache are as they were, and no entry of another symbol
\* is added.
C18_OnlyTheFramesEntryChanges ==
    [][ last'.op = "message_handler"
        => /\ EntriesOfOthers(l2_book', last'.msg)
                  = EntriesOfOthers(l2_book, last'.msg)
           /\ std_symbol_mapping' = std_symbol_mapping
           /\ instrument_info_cache' = instrument_info_cache ]_vars

\* a depth frame replaced the book of its symbol while the cache held the
\* books of another symbol of the connection and of a symbol of the other
\* connection
C18_Witness ==
    /\ last.op = "message_handler"
    /\ IsDepthTag(last.msg)
    /\ last.raised = NoError
    /\ last.replaced
    /\ Cardinality(EntriesOfOthers(l2_book, last.msg)) = 2
    /\ OwnedBy(last.conn) \subseteq DictKeys(l2_book)

\* C19: on a connection that was established, authenticate and then
\* subscribe run on the same subscription: when authenticate wrote an
\* authentication payload the subscribe that follows raises the
\* unimplemented error, and when subscribe completes authenticate wrote no
\* payload on the connection; no connection that reads frames has sent one.
C19_AuthPayloadExcludesSubscription ==
    [][ /\ last'.op = "subscribe"
           => /\ authSent[last'.conn]
                 => last'.raised = "NotImplementedError"
              /\ last'.raised = NoError => ~authSent[last'.conn]
        /\ \A k \in Conns : connState'[k] = "open" => ~authSent'[k] ]_vars

\* subscribe raised on a connection authenticate had written a payload on,
\* after it had written the frames of the book channel
C19_Witness ==
    /\ last.op = "subscribe"
    /\ authSent[last.conn]
    /\ last.raised = "NotImplementedError"
    /\ Len(last.written) = 2
    /\ connState[last.conn] = "closed"

\* subscribe completed on a connection authenticate had written nothing on,
\* established for the second time
C19_WitnessCompleted ==
    /\ last.op = "subscribe"
    /\ ~authSent[last.conn]
    /\ last.raised = NoError
    /\ epoch[last.conn] >= 2
    /\ Len(last.written) >= 1

=============================================================================
